---------------------------- MODULE Spec2Model ----------------------------
(***************************************************************************)
(* The two greeting handlers of API-Gateway-x-lamda:                       *)
(*   src/http-get-lamda-function..py    lambda_handler (proxy variant)     *)
(*   src/non-proxy-lambda-processor.py  lambda_handler (plain variant)     *)
(*                                                                         *)
(* Python text is a sequence of characters, each character a one-character *)
(* TLA+ string; the character U+00E9 is written "U+00E9".  A Python value  *)
(* is a record [t, s, n, d]: its type tag, its text (str), its number      *)
(* (int, bool) and its items (dict, a sequence of <<key, value>> pairs in  *)
(* insertion order).                                                       *)
(***************************************************************************)
EXTENDS Integers, Sequences, FiniteSets, TLC

VARIABLES event, context, supplied, handler, outcome, name, phase, memo

vars == <<event, context, supplied, handler, outcome, name, phase, memo>>

(***************************************************************************)
(* Bounds of the input space.                                              *)
(***************************************************************************)
MaxLen == 2

Chars == {"a", "B", " ", "\"", "\\", "\n", "U+00E9"}

Ada == <<"A", "d", "a">>

Contexts == {"ctx1", "ctx2"}

(***************************************************************************)
(* Python values.                                                          *)
(***************************************************************************)
PyStr(s) == [t |-> "str", s |-> s, n |-> 0, d |-> <<>>]

PyInt(i) == [t |-> "int", s |-> <<>>, n |-> i, d |-> <<>>]

PyBool(b) == [t |-> "bool", s |-> <<>>, n |-> IF b THEN 1 ELSE 0, d |-> <<>>]

PyNone == [t |-> "none", s |-> <<>>, n |-> 0, d |-> <<>>]

PyDict(items) == [t |-> "dict", s |-> <<>>, n |-> 0, d |-> items]

Unbound == [t |-> "unbound", s |-> <<>>, n |-> 0, d |-> <<>>]

TruthyNotNone(v) == v.t # "none"

\* bool(v): the truth value Python's `if` gives a value.
Truthy(v) ==
    CASE v.t = "str" -> v.s # <<>>
      [] v.t = "int" -> v.n # 0
      [] v.t = "bool" -> v.n = 1
      [] v.t = "dict" -> v.d # <<>>
      [] OTHER -> FALSE

\* Whether the value has a .get attribute: among the values here only a dict.
HasGet(v) == v.t = "dict"

RECURSIVE Lookup(_, _, _)
\* The value the first pair of `items` with key k holds, `default` with none.
Lookup(items, k, default) ==
    IF items = <<>> THEN default
    ELSE IF Head(items)[1] = k THEN Head(items)[2]
    ELSE Lookup(Tail(items), k, default)

\* dict.get(k, default): the value returned.
DictGet(d, k, default) == Lookup(d.d, k, default)

HasKey(d, k) == \E i \in 1..Len(d.d) : d.d[i][1] = k

DictSetDefault(d, k, default) ==
    IF HasKey(d, k) THEN d ELSE PyDict(Append(d.d, <<k, default>>))

\* dict.get(k, default): the mapping after the call. get only reads.
DictAfterGet(d, k, default) == d

(***************************************************************************)
(* str(int), format(value, "") as an f-string field applies it.            *)
(***************************************************************************)
Digit(i) == SubSeq(<<"0", "1", "2", "3", "4", "5", "6", "7", "8", "9">>, i + 1, i + 1)

RECURSIVE NatStr(_)
NatStr(i) == IF i < 10 THEN Digit(i) ELSE NatStr(i \div 10) \o Digit(i % 10)

IntStr(i) == IF i < 0 THEN <<"-">> \o NatStr(-i) ELSE NatStr(i)

RECURSIVE Strip(_)
Strip(s) ==
    IF s # <<>> /\ Head(s) \in {" ", "\n"} THEN Strip(Tail(s))
    ELSE IF s # <<>> /\ s[Len(s)] \in {" ", "\n"} THEN Strip(SubSeq(s, 1, Len(s) - 1))
    ELSE s

PyFormatStripped(v) ==
    CASE v.t = "str" -> Strip(v.s)
      [] v.t = "int" -> IntStr(v.n)
      [] v.t = "bool" -> IF v.n = 1 THEN <<"T", "r", "u", "e">> ELSE <<"F", "a", "l", "s", "e">>
      [] OTHER -> <<"N", "o", "n", "e">>

\* The text an f-string field {v} contributes.
PyFormat(v) ==
    CASE v.t = "str" -> v.s
      [] v.t = "int" -> IntStr(v.n)
      [] v.t = "bool" -> IF v.n = 1 THEN <<"T", "r", "u", "e">> ELSE <<"F", "a", "l", "s", "e">>
      [] OTHER -> <<"N", "o", "n", "e">>

(***************************************************************************)
(* json.dumps with its defaults: ensure_ascii, separators ", " and ": ".   *)
(***************************************************************************)
\* ord(c) of the characters of the model.
Ord(c) ==
    CASE c = "\n" -> 10
      [] c = " " -> 32
      [] c = "\"" -> 34
      [] c = "B" -> 66
      [] c = "\\" -> 92
      [] c = "a" -> 97
      [] c = "A" -> 65
      [] c = "d" -> 100
      [] c = "U+00E9" -> 233
      [] OTHER -> 63

HexDigit(i) ==
    SubSeq(<<"0", "1", "2", "3", "4", "5", "6", "7", "8", "9", "a", "b", "c", "d", "e", "f">>,
           i + 1, i + 1)

\* '\\u{0:04x}'.format(n)
UEscape(n) ==
    <<"\\", "u">> \o HexDigit((n \div 4096) % 16) \o HexDigit((n \div 256) % 16)
                  \o HexDigit((n \div 16) % 16) \o HexDigit(n % 16)

EscapeCharRaw(c) == <<c>>

\* json.encoder.py_encode_basestring_ascii, one character.
EscapeChar(c) ==
    CASE c = "\"" -> <<"\\", "\"">>
      [] c = "\\" -> <<"\\", "\\">>
      [] c = "\n" -> <<"\\", "n">>
      [] Ord(c) < 32 \/ Ord(c) > 126 -> UEscape(Ord(c))
      [] OTHER -> <<c>>

RECURSIVE EscapeText(_)
EscapeText(s) == IF s = <<>> THEN <<>> ELSE EscapeChar(Head(s)) \o EscapeText(Tail(s))

\* json.dumps of a str.
DumpsStr(s) == <<"\"">> \o EscapeText(s) \o <<"\"">>

ItemSeparatorCompact == <<",">>

ItemSeparator == <<",", " ">>

KeySeparator == <<":", " ">>

RECURSIVE DumpsItems(_)
DumpsItems(items) ==
    IF items = <<>> THEN <<>>
    ELSE DumpsStr(Head(items)[1]) \o KeySeparator \o DumpsStr(Head(items)[2])
         \o (IF Len(items) > 1 THEN ItemSeparator ELSE <<>>)
         \o DumpsItems(Tail(items))

\* json.dumps of a dict of str to str, given as <<key, value>> pairs in insertion order.
JsonDumps(items) == <<"{">> \o DumpsItems(items) \o <<"}">>

(***************************************************************************)
(* The literals of the two handlers.                                       *)
(***************************************************************************)
World ==
    <<"W", "o", "r", "l", "d">>

MessageKey ==
    <<"m", "e", "s", "s", "a", "g", "e">>

StatusKey ==
    <<"s", "t", "a", "t", "u", "s">>

Success ==
    <<"s", "u", "c", "c", "e", "s", "s">>

HelloPrefix ==
    <<"H", "e", "l", "l", "o", ",", " ">>

HelloSuffix ==
    <<"!", " ", "Y", "o", "u", "r", " ", "r", "e", "q", "u", "e", "s", "t", " ", "w", "a", "s",
      " ", "s", "u", "c", "c", "e", "s", "s", "f", "u", "l", ".">>

PlainPrefix ==
    <<"H", "e", "l", "l", "o", " ", "f", "r", "o", "m", " ", "n", "o", "n", "-", "p", "r", "o",
      "x", "y", ",", " ">>

PlainSuffix ==
    <<"!">>

(***************************************************************************)
(* What an invocation ends in: a returned mapping or a raised exception.   *)
(***************************************************************************)
NoOutcome == [kind |-> "none", value |-> [nothing |-> TRUE]]

Return(v) == [kind |-> "return", value |-> v]

Raise(e) == [kind |-> "raise", value |-> [exception |-> e]]

\* The mapping d with the value under key k replaced by v (k is a key of d).
SetItem(d, k, v) ==
    PyDict([i \in 1..Len(d.d) |-> IF d.d[i][1] = k THEN <<k, v>> ELSE d.d[i]])

(***************************************************************************)
(* src/http-get-lamda-function..py                                         *)
(***************************************************************************)
NameDefaultLower == PyStr(<<"w", "o", "r", "l", "d">>)

\* The last binding of the handler's local `name`, as a module-level variable
\* that is set once would keep it.
NameDefaultStale == IF name.t = "unbound" THEN PyStr(World) ELSE name

\* name = "World"
NameDefault == PyStr(World)

\* event.get('queryStringParameters')
ProxyQsp(ev) == DictGet(ev, "queryStringParameters", PyNone)

ProxyFaultsCaught(ev) == FALSE

\* The .get of line 6 on a value that has no such attribute: AttributeError.
ProxyFaults(ev) == Truthy(ProxyQsp(ev)) /\ ~HasGet(ProxyQsp(ev))

ProxyNameTopLevel(ev) ==
    IF Truthy(ProxyQsp(ev)) /\ ~ProxyFaults(ev)
    THEN DictGet(ProxyQsp(ev), "name", DictGet(ev, "name", NameDefault))
    ELSE DictGet(ev, "name", NameDefault)

\* The binding of `name` when the handler leaves lines 4 to 6.
ProxyName(ev) ==
    IF Truthy(ProxyQsp(ev)) /\ ~ProxyFaults(ev)
    THEN DictGet(ProxyQsp(ev), "name", NameDefault)
    ELSE NameDefault

\* response_data, its items in insertion order.
ResponseData(nm) ==
    << <<MessageKey, HelloPrefix \o PyFormat(nm) \o HelloSuffix>>,
       <<StatusKey, Success>> >>

ProxyResponseNoHeaders(nm) ==
    [statusCode |-> 200, body |-> JsonDumps(ResponseData(nm))]

\* The mapping of the return statement.
ProxyResponse(nm) ==
    [statusCode |-> 200,
     headers |-> ("Content-Type" :> "application/json"),
     body |-> JsonDumps(ResponseData(nm))]

\* lambda_handler(event, context) of the proxy variant.
ProxyHandler(ev, ctx) ==
    IF ProxyFaults(ev) THEN Raise("AttributeError")
    ELSE Return(ProxyResponse(ProxyName(ev)))

\* The event mapping after the handler's calls on it and on the mapping nested in it.
ProxyEventAfter(ev) ==
    LET e1 == DictAfterGet(ev, "queryStringParameters", PyNone)
        q1 == DictGet(e1, "queryStringParameters", PyNone)
        e2 == DictAfterGet(e1, "queryStringParameters", PyNone)
        q2 == DictGet(e2, "queryStringParameters", PyNone)
    IN  IF ~Truthy(q1) THEN e1
        ELSE IF ~HasGet(q2) THEN e2
        ELSE SetItem(e2, "queryStringParameters", DictAfterGet(q2, "name", NameDefault))

(***************************************************************************)
(* src/non-proxy-lambda-processor.py                                       *)
(***************************************************************************)
PlainDefault == PyStr(World)

\* name = event.get('name', 'World')
PlainName(ev) == DictGet(ev, "name", PlainDefault)

\* The mapping of the return statement.
PlainResponse(nm) == [greeting |-> PlainPrefix \o PyFormat(nm) \o PlainSuffix]

\* lambda_handler(event, context) of the plain variant.
PlainHandler(ev, ctx) == Return(PlainResponse(PlainName(ev)))

\* The event mapping after the handler's call on it.
PlainEventAfter(ev) == DictAfterGet(ev, "name", PlainDefault)

(***************************************************************************)
(* The events the host supplies.                                           *)
(***************************************************************************)
Strings(n) == UNION {[1..m -> Chars] : m \in 0..n}

Scalars == {PyNone, PyInt(0), PyInt(7), PyInt(-12), PyBool(TRUE), PyBool(FALSE)}

NameVals == {PyStr(s) : s \in Strings(MaxLen) \cup {Ada}} \cup Scalars

DecoyVals == {PyStr(<<"B">>), PyNone}

OtherItem == <<"other", PyStr(<<"a">>)>>

QspMappings ==
    {PyDict(<<>>), PyDict(<<OtherItem>>)}
    \cup {PyDict(<< <<"name", v>> >>) : v \in NameVals}
    \cup {PyDict(<< OtherItem, <<"name", v>> >>) : v \in DecoyVals}

QspVals == QspMappings \cup NameVals

SmallQsp ==
    {PyNone, PyStr(<<>>), PyInt(0), PyBool(FALSE), PyDict(<<>>),
     PyStr(<<"a">>), PyInt(7), PyBool(TRUE),
     PyDict(<<OtherItem>>), PyDict(<< <<"name", PyStr(<<"B">>)>> >>)}

\* The event with the two entries, Unbound standing for an absent one.
MkEvent(top, qsp) ==
    PyDict((IF top.t = "unbound" THEN <<>> ELSE << <<"name", top>> >>)
           \o (IF qsp.t = "unbound" THEN <<>> ELSE << <<"queryStringParameters", qsp>> >>))

Events ==
    {MkEvent(t, q) : t \in {Unbound} \cup NameVals, q \in {Unbound} \cup SmallQsp}
    \cup {MkEvent(t, q) : t \in {Unbound} \cup DecoyVals, q \in {Unbound} \cup QspVals}

SeqEvents ==
    {MkEvent(t, q) : t \in {Unbound, PyStr(<<"a">>)},
                     q \in {Unbound, PyNone, PyStr(<<"a">>), PyDict(<<>>),
                            PyDict(<< <<"name", PyStr(<<"B">>)>> >>),
                            PyDict(<< <<"name", PyStr(<<"a">>)>> >>)}}

(***************************************************************************)
(* The state machine: the host supplies an event and a context and invokes *)
(* one of the two handlers on them.                                        *)
(***************************************************************************)
NoMemo ==
    [handler |-> "none", event |-> PyDict(<<>>), context |-> "none", outcome |-> NoOutcome]

Start(evs) ==
    /\ event \in evs
    /\ context \in Contexts
    /\ supplied = [event |-> event, context |-> context]
    /\ handler = "none"
    /\ outcome = NoOutcome
    /\ name = Unbound
    /\ phase = "ready"
    /\ memo = NoMemo

Init == Start(Events)

InitSeq == Start(SeqEvents)

InvokeProxy ==
    /\ phase = "ready"
    /\ handler' = "proxy"
    /\ outcome' = ProxyHandler(event, context)
    /\ event' = ProxyEventAfter(event)
    /\ name' = ProxyName(event)
    /\ phase' = "done"
    /\ UNCHANGED <<context, supplied, memo>>

InvokePlain ==
    /\ phase = "ready"
    /\ handler' = "plain"
    /\ outcome' = PlainHandler(event, context)
    /\ event' = PlainEventAfter(event)
    /\ name' = PlainName(event)
    /\ phase' = "done"
    /\ UNCHANGED <<context, supplied, memo>>

\* The host's next invocation: a fresh event and context, the last frame gone.
NextRequest ==
    /\ phase = "done"
    /\ \E e \in SeqEvents, c \in Contexts :
          /\ event' = e
          /\ context' = c
          /\ supplied' = [event |-> e, context |-> c]
    /\ outcome' = NoOutcome
    /\ phase' = "ready"
    /\ UNCHANGED <<handler, name, memo>>

\* An observer's note of one finished invocation, to compare later ones with.
Remember ==
    /\ phase = "done"
    /\ memo' = [handler |-> handler, event |-> supplied.event,
                context |-> supplied.context, outcome |-> outcome]
    /\ UNCHANGED <<event, context, supplied, handler, outcome, name, phase>>

Next == InvokeProxy \/ InvokePlain

NextSeq == InvokeProxy \/ InvokePlain \/ NextRequest \/ Remember

Spec == Init /\ [][Next]_vars

SpecSeq == InitSeq /\ [][NextSeq]_vars


(***************************************************************************)
(* A JSON decoder for the texts the claims decode: an object whose values  *)
(* are strings (RFC 8259; a raw control character in a string is an        *)
(* error, as for json.loads).                                              *)
(***************************************************************************)
DecodeFail == [ok |-> FALSE, val |-> <<>>, next |-> 0]

HexDigits == <<"0", "1", "2", "3", "4", "5", "6", "7", "8", "9", "a", "b", "c", "d", "e", "f">>

IsHex(c) == \E i \in 1..16 : HexDigits[i] = c

HexVal(c) == (CHOOSE i \in 1..16 : HexDigits[i] = c) - 1

\* The character with code point n.
Chr(n) ==
    IF \E c \in Chars : Ord(c) = n THEN CHOOSE c \in Chars : Ord(c) = n ELSE "U+FFFD"

RECURSIVE ScanString(_, _, _)
\* The string whose opening quote is before position i of s, acc decoded so far.
ScanString(s, i, acc) ==
    IF i > Len(s) THEN DecodeFail
    ELSE IF s[i] = "\"" THEN [ok |-> TRUE, val |-> acc, next |-> i + 1]
    ELSE IF s[i] = "\\" THEN
        IF i + 1 > Len(s) THEN DecodeFail
        ELSE IF s[i + 1] \in {"\"", "\\", "/"} THEN ScanString(s, i + 2, Append(acc, s[i + 1]))
        ELSE IF s[i + 1] = "n" THEN ScanString(s, i + 2, Append(acc, "\n"))
        ELSE IF s[i + 1] = "u" THEN
            IF i + 5 > Len(s) \/ \E j \in 2..5 : ~IsHex(s[i + j]) THEN DecodeFail
            ELSE ScanString(s, i + 6,
                            Append(acc, Chr(4096 * HexVal(s[i + 2]) + 256 * HexVal(s[i + 3])
                                            + 16 * HexVal(s[i + 4]) + HexVal(s[i + 5]))))
        ELSE DecodeFail
    ELSE IF Ord(s[i]) < 32 THEN DecodeFail
    ELSE ScanString(s, i + 1, Append(acc, s[i]))

RECURSIVE SkipSpace(_, _)
SkipSpace(s, i) == IF i <= Len(s) /\ s[i] \in {" ", "\n"} THEN SkipSpace(s, i + 1) ELSE i

\* The string that starts at position i of s, after white space.
ParseString(s, i) ==
    LET j == SkipSpace(s, i)
    IN  IF j <= Len(s) /\ s[j] = "\"" THEN ScanString(s, j + 1, <<>>) ELSE DecodeFail

RECURSIVE ParseMembers(_, _, _)
\* The members of an object from position i of s on, acc decoded so far.
ParseMembers(s, i, acc) ==
    LET k == ParseString(s, i)
        c == SkipSpace(s, k.next)
        v == ParseString(s, c + 1)
        e == SkipSpace(s, v.next)
    IN  IF ~k.ok \/ c > Len(s) \/ s[c] # ":" THEN DecodeFail
        ELSE IF ~v.ok \/ e > Len(s) THEN DecodeFail
        ELSE IF s[e] = "," THEN ParseMembers(s, e + 1, Append(acc, <<k.val, v.val>>))
        ELSE IF s[e] = "}" /\ SkipSpace(s, e + 1) > Len(s)
             THEN [ok |-> TRUE, val |-> Append(acc, <<k.val, v.val>>), next |-> Len(s) + 1]
        ELSE DecodeFail

\* json.loads of the text s: [ok, val], val the members in the order of the text.
JsonLoads(s) ==
    LET i == SkipSpace(s, 1)
    IN  IF i > Len(s) \/ s[i] # "{" THEN DecodeFail
        ELSE IF SkipSpace(s, i + 1) <= Len(s) /\ s[SkipSpace(s, i + 1)] = "}"
                /\ SkipSpace(s, SkipSpace(s, i + 1) + 1) > Len(s)
             THEN [ok |-> TRUE, val |-> <<>>, next |-> Len(s) + 1]
        ELSE ParseMembers(s, i + 1, <<>>)

\* The decoded object as a mapping: of two members with one key the later one counts.
ObjectOf(items) ==
    [k \in {items[i][1] : i \in 1..Len(items)} |->
        items[CHOOSE i \in 1..Len(items) :
                 items[i][1] = k /\ \A j \in (i + 1)..Len(items) : items[j][1] # k][2]]

(***************************************************************************)
(* Shorthands of the claims: the event as the host supplied it.            *)
(***************************************************************************)
InEvent == supplied.event

HasQsp == HasKey(InEvent, "queryStringParameters")

InQsp == Lookup(InEvent.d, "queryStringParameters", Unbound)

HasTopName == HasKey(InEvent, "name")

InTopName == Lookup(InEvent.d, "name", Unbound)

HasNestedName == HasQsp /\ InQsp.t = "dict" /\ HasKey(InQsp, "name")

InNestedName == Lookup(InQsp.d, "name", Unbound)

DoneProxy == phase = "done" /\ handler = "proxy"

DonePlain == phase = "done" /\ handler = "plain"

Returned == outcome.kind = "return"

\* The body of the returned envelope decodes to exactly message = msg, status = "success".
BodyDecodesTo(msg) ==
    /\ Returned
    /\ "body" \in DOMAIN outcome.value
    /\ JsonLoads(outcome.value.body).ok
    /\ ObjectOf(JsonLoads(outcome.value.body).val) = (MessageKey :> msg) @@ (StatusKey :> Success)

HelloWorldMessage ==
    <<"H", "e", "l", "l", "o", ",", " ", "W", "o", "r", "l", "d", "!", " ", "Y", "o", "u", "r",
      " ", "r", "e", "q", "u", "e", "s", "t", " ", "w", "a", "s", " ", "s", "u", "c", "c", "e",
      "s", "s", "f", "u", "l", ".">>

PlainWorldGreeting ==
    <<"H", "e", "l", "l", "o", " ", "f", "r", "o", "m", " ", "n", "o", "n", "-", "p", "r", "o",
      "x", "y", ",", " ", "W", "o", "r", "l", "d", "!">>

\* C1: whenever the proxy handler was invoked on an event whose queryStringParameters
\* mapping holds a string name X, it returned, and its body decodes as JSON to exactly
\* message = "Hello, " + X + "! Your request was successful." and status = "success",
\* X character for character (the empty X included).
C1_ProxyMessageVerbatim ==
    (DoneProxy /\ HasNestedName /\ InNestedName.t = "str")
        => BodyDecodesTo(HelloPrefix \o InNestedName.s \o HelloSuffix)

\* C1 happens: a proxy invocation returned for a name of a space and a double quote.
C1_Witness ==
    DoneProxy /\ HasNestedName /\ InNestedName = PyStr(<<" ", "\"">>) /\ Returned

\* C2: whenever a handler was invoked on an event without a name (proxy: no
\* queryStringParameters, or a mapping without "name"; plain: no top-level "name"), the
\* proxy body decodes to the message "Hello, World! Your request was successful." and
\* the plain handler returned exactly {"greeting": "Hello from non-proxy, World!"}.
C2_DefaultWorld ==
    /\ (DoneProxy /\ (~HasQsp \/ (InQsp.t = "dict" /\ ~HasKey(InQsp, "name"))))
          => BodyDecodesTo(HelloWorldMessage)
    /\ (DonePlain /\ ~HasTopName)
          => outcome = Return([greeting |-> PlainWorldGreeting])

\* C2 happens: a proxy invocation returned for a non-empty mapping without "name".
C2_Witness ==
    DoneProxy /\ HasQsp /\ InQsp = PyDict(<<OtherItem>>) /\ Returned


\* The text Python gives the values of the model that are not strings.
TextOf(v) ==
    CASE v = PyNone -> <<"N", "o", "n", "e">>
      [] v = PyBool(TRUE) -> <<"T", "r", "u", "e">>
      [] v = PyBool(FALSE) -> <<"F", "a", "l", "s", "e">>
      [] v = PyInt(0) -> <<"0">>
      [] v = PyInt(7) -> <<"7">>
      [] v = PyInt(-12) -> <<"-", "1", "2">>
      [] OTHER -> v.s

\* C3: whenever the plain handler was invoked on an event with a top-level name X, it
\* returned a mapping whose only key is "greeting" (no statusCode, headers or body),
\* holding "Hello from non-proxy, " + X + "!" with X character for character (a value
\* that is no string contributes the text Python prints it as).
C3_PlainGreetingVerbatim ==
    (DonePlain /\ HasTopName)
        => /\ Returned
           /\ DOMAIN outcome.value = {"greeting"}
           /\ outcome.value.greeting = PlainPrefix \o TextOf(InTopName) \o PlainSuffix

\* C3 happens: a plain invocation returned for the name " B", with a nested name too.
C3_Witness ==
    DonePlain /\ HasTopName /\ InTopName = PyStr(<<" ", "B">>) /\ Returned

\* The queryStringParameters entry is present, is no mapping and is truthy: a
\* non-empty string, a non-zero number or true.
TruthyNonMappingQsp ==
    /\ HasQsp
    /\ \/ InQsp.t = "str" /\ InQsp.s # <<>>
       \/ InQsp.t = "int" /\ InQsp.n # 0
       \/ InQsp = PyBool(TRUE)

\* The returned mapping is the envelope: exactly statusCode, headers and body, with
\* statusCode 200 and headers {"Content-Type": "application/json"}.
IsEnvelope ==
    /\ Returned
    /\ DOMAIN outcome.value = {"statusCode", "headers", "body"}
    /\ outcome.value.statusCode = 200
    /\ DOMAIN outcome.value.headers = {"Content-Type"}
    /\ outcome.value.headers["Content-Type"] = "application/json"

\* C4 as stated: on every event the proxy handler's result is the 200 envelope.
C4_Original == DoneProxy => IsEnvelope

\* C4, amended: on every event whose queryStringParameters entry is absent, falsy or a
\* mapping, the proxy handler's result has exactly the keys statusCode, headers and
\* body, statusCode 200 and headers {"Content-Type": "application/json"}.
C4_EnvelopeWhenReturned == (DoneProxy /\ ~TruthyNonMappingQsp) => IsEnvelope

\* C4 happens: a proxy invocation returned on an event with a top-level name and a
\* nested name that is no string.
C4_Witness ==
    DoneProxy /\ HasTopName /\ HasNestedName /\ InNestedName = PyInt(-12) /\ Returned

BodyHead ==
    <<"{", "\"", "m", "e", "s", "s", "a", "g", "e", "\"", ":", " ", "\"", "H", "e", "l", "l",
      "o", ",", " ">>

BodyTail ==
    <<"!", " ", "Y", "o", "u", "r", " ", "r", "e", "q", "u", "e", "s", "t", " ", "w", "a", "s",
      " ", "s", "u", "c", "c", "e", "s", "s", "f", "u", "l", ".", "\"", ",", " ", "\"", "s", "t",
      "a", "t", "u", "s", "\"", ":", " ", "\"", "s", "u", "c", "c", "e", "s", "s", "\"", "}">>

\* The JSON escapes of the characters of the model, as RFC 8259 and ensure_ascii name them.
EscapeTable ==
    [c \in Chars |->
        CASE c = "\"" -> <<"\\", "\"">>
          [] c = "\\" -> <<"\\", "\\">>
          [] c = "\n" -> <<"\\", "n">>
          [] c = "U+00E9" -> <<"\\", "u", "0", "0", "e", "9">>
          [] OTHER -> <<c>>]

RECURSIVE Escaped(_)
Escaped(s) ==
    IF s = <<>> THEN <<>>
    ELSE (IF Head(s) \in Chars THEN EscapeTable[Head(s)] ELSE <<Head(s)>>) \o Escaped(Tail(s))

\* C5 as stated: the body is the fixed text with X inserted character for character.
C5_Original ==
    (DoneProxy /\ HasNestedName /\ InNestedName.t = "str")
        => (Returned /\ outcome.value.body = BodyHead \o InNestedName.s \o BodyTail)

\* C5, amended: the body is exactly {"message": "Hello, X! Your request was
\* successful.", "status": "success"}, message before status, one space after each
\* colon and comma, with X inserted as a JSON string escapes it: a double quote as \",
\* a backslash as \\, a control or non-ASCII character as its \n or \uXXXX escape,
\* every other character as it is.
C5_BodyBitExactEscaped ==
    (DoneProxy /\ HasNestedName /\ InNestedName.t = "str")
        => (Returned /\ outcome.value.body = BodyHead \o Escaped(InNestedName.s) \o BodyTail)

\* C5 happens: a proxy invocation returned for the name of a backslash and U+00E9.
C5_Witness ==
    DoneProxy /\ HasNestedName /\ InNestedName = PyStr(<<"\\", "U+00E9">>) /\ Returned

\* C6 as stated: a queryStringParameters entry that is no mapping makes the proxy
\* handler fault.
C6_Original ==
    (DoneProxy /\ HasQsp /\ InQsp.t # "dict") => outcome.kind = "raise"

\* C6, amended: when the queryStringParameters entry is present and is a truthy value
\* that is no mapping (a non-empty string, a non-zero number, true), the proxy handler
\* returns no envelope: the invocation ends in the uncaught fault of the attribute
\* access.
C6_FaultOnTruthyNonMapping ==
    (DoneProxy /\ TruthyNonMappingQsp)
        => (outcome.kind = "raise" /\ outcome.value = [exception |-> "AttributeError"])

\* C6 happens: a proxy invocation faulted on queryStringParameters = 7.
C6_Witness ==
    DoneProxy /\ HasQsp /\ InQsp = PyInt(7) /\ outcome.kind = "raise"

\* C7: an invocation's outcome depends on its handler and its event only: whatever
\* was invoked before and whatever the contexts, an invocation ends as a remembered
\* earlier invocation of the same handler on an equal event ended.
C7_OutcomeDependsOnEventOnly ==
    (phase = "done" /\ memo.handler = handler /\ memo.event = supplied.event)
        => (memo.outcome.kind = outcome.kind /\ memo.outcome = outcome)

\* C7 happens: a proxy invocation that returned on an event without
\* queryStringParameters, a remembered earlier one on an equal event had another context.
C7_Witness ==
    /\ DoneProxy
    /\ memo.handler = "proxy"
    /\ memo.event = supplied.event
    /\ memo.context # supplied.context
    /\ memo.outcome.kind = "return"
    /\ ~HasQsp

\* C8: after an invocation, returned or faulted, the event mapping (the nested
\* mapping with it) and the context are what the host supplied.
C8_InputsUnchanged ==
    phase = "done" => (event = supplied.event /\ context = supplied.context)

\* C8 happens: a proxy invocation faulted on an event without a top-level name.
C8_Witness ==
    DoneProxy /\ outcome.kind = "raise" /\ ~HasTopName

\* C9: the proxy handler ignores a top-level name (an event with one and without
\* queryStringParameters gets the "World" message) and the plain handler ignores a
\* nested name (an event with only the nested one gets "Hello from non-proxy, World!").
C9_OwnLocationOnly ==
    /\ (DoneProxy /\ HasTopName /\ ~HasQsp) => BodyDecodesTo(HelloWorldMessage)
    /\ (DonePlain /\ ~HasTopName /\ HasNestedName)
          => (Returned /\ outcome.value.greeting = PlainWorldGreeting)

\* C9 happens: a proxy invocation returned on the event {"name": "B"}.
C9_Witness ==
    DoneProxy /\ InEvent = PyDict(<< <<"name", PyStr(<<"B">>)>> >>) /\ Returned

\* The falsy values of a queryStringParameters entry: null, {}, "", 0 and false.
FalsyValues == {PyNone, PyDict(<<>>), PyStr(<<>>), PyInt(0), PyBool(FALSE)}

\* C10: when the queryStringParameters entry is present with a falsy value, the proxy
\* handler does not fault and returns the full 200 envelope whose body is the default
\* "Hello, World! Your request was successful." one.
C10_FalsyQspIsAbsent ==
    (DoneProxy /\ HasQsp /\ InQsp \in FalsyValues)
        => /\ IsEnvelope
           /\ outcome.value.body = BodyHead \o World \o BodyTail
           /\ BodyDecodesTo(HelloWorldMessage)

\* C10 happens: a proxy invocation returned on queryStringParameters = "".
C10_Witness ==
    DoneProxy /\ HasQsp /\ InQsp = PyStr(<<>>) /\ Returned

=============================================================================
